---- MODULE Spec2Model ----
(***************************************************************************)
(* A model of the slack-b backend relay: the OAuth callback, the session   *)
(* check, the credential store routes and the four message routes.         *)
(*                                                                         *)
(* The repository holds three revisions of the server:                     *)
(*   R1  src/src/index.js lines   1-378  (Token store, userId query)       *)
(*   R2  src/src/index.js lines 380-643  (session cookie, first form)      *)
(*   R3  src/unnamed/part_000            (session cookie, scoped cookies)  *)
(* and one chat client, src/unnamed/part_001 (slackClient.js).  A          *)
(* deployment runs one revision; revision is fixed by Init.                *)
(*                                                                         *)
(* Every handler is one action.  The variable last describes the request   *)
(* handled by the latest step: what the server saw, the remote calls it    *)
(* made and the response it sent.                                          *)
(*                                                                         *)
(* Spec serves the login, session, store and send routes one request at a  *)
(* time; SpecConcurrent lets callbacks of R1 overlap at their store write; *)
(* SpecMessages serves the four message routes.                            *)
(***************************************************************************)
EXTENDS Integers, Sequences, FiniteSets, TLC

VARIABLES
  revision,        \* which revision of the server is deployed
  production,      \* process.env.NODE_ENV === "production"
  SLACK_BOT_TOKEN, \* the fallback token of the environment, None when unset
  uniqueUserId,    \* whether the Token schema has a unique index on userId
  store,           \* the Token collection: a set of records
  jar,             \* the client's cookie jar: a set of cookies
  inflight,        \* the callbacks of R1 suspended at the await of the store
  last             \* the request handled by the latest step

vars ==
  <<revision, production, SLACK_BOT_TOKEN, uniqueUserId, store, jar, inflight, last>>

config == <<revision, production, SLACK_BOT_TOKEN, uniqueUserId>>

\* ------------------------------------------------------------------ values

\* JavaScript's undefined: a missing query parameter, cookie, field or variable.
None == "none"

Revisions == {"R1", "R2", "R3"}

Users == {"U1", "U2"}

Teams == {"T1", "T2"}

Tokens == {"xoxp-1", "xoxp-2"}

BotToken == "xoxb-bot"

Nonces == {"n1", "n2"}

Codes == {"c1"}

RemoteErrors == {"invalid_code"}

\* !v for the string values of the model.
Falsy(v) == v = None \/ v = ""

\* String(value) as res.cookie applies it: an undefined value is stored as the
\* text "undefined".
CookieString(v) == IF v = None THEN "undefined" ELSE v

\* ----------------------------------------------------------------- cookies

BackendDomain == "slack-b.onrender.com"

FrontendDomain == "slack-f.vercel.app"

RenderDomain == ".onrender.com"

CallbackPath == "/auth/slack/callback"

\* A Set-Cookie header of a response.
SetCookie(name, value, domain, path) ==
  [act |-> "set", name |-> name, value |-> CookieString(value),
   domain |-> domain, path |-> path]

\* res.clearCookie(name, options): an expired Set-Cookie for that name, domain
\* and path.
ClearCookie(name, domain, path) ==
  [act |-> "clear", name |-> name, value |-> "", domain |-> domain, path |-> path]

SameCookie(c, h) == c.name = h.name /\ c.domain = h.domain /\ c.path = h.path

\* The client keeps a cookie only for the site it talks to: a Domain of another
\* site is refused.
Accepts(h) == h.domain # FrontendDomain

\* The client applies one Set-Cookie header: a cookie is replaced or removed only
\* by a header with the same name, domain and path.
JarApply1(j, h) ==
  IF ~Accepts(h) THEN j
  ELSE IF h.act = "clear" THEN {c \in j : ~SameCookie(c, h)}
  ELSE {c \in j : ~SameCookie(c, h)} \cup
       {[name |-> h.name, value |-> h.value, domain |-> h.domain, path |-> h.path]}

RECURSIVE JarApply(_, _)
JarApply(j, hs) ==
  IF hs = <<>> THEN j ELSE JarApply(JarApply1(j, Head(hs)), Tail(hs))

\* The values req.cookies[name] can take for a request to path p: the value of a
\* cookie of the jar whose path covers p, undefined when there is none.
ReqCookie(j, name, p) ==
  LET sent == {c \in j : c.name = name /\ (c.path = "/" \/ c.path = p)}
  IN  IF sent = {} THEN {None} ELSE {c.value : c \in sent}

\* ------------------------------------------------------------------- store

\* Token.findOne({ userId }): the records the query can return.
FindByUser(s, userId) == {r \in s : r.userId = userId}

\* The filter left empty: the write replaces whatever the collection holds.
UpsertUnfiltered(s, userId, teamId, accessToken) ==
  {[userId |-> userId, teamId |-> teamId, accessToken |-> accessToken]}

\* Token.findOneAndUpdate({ userId, teamId }, { accessToken }, { upsert: true }):
\* sets the token of the record with that userId and teamId, inserts it if absent.
Upsert(s, userId, teamId, accessToken) ==
  {r \in s : ~(r.userId = userId /\ r.teamId = teamId)} \cup
  {[userId |-> userId, teamId |-> teamId, accessToken |-> accessToken]}

\* The insert of an upsert breaks a unique index on userId when another record
\* of that user exists: the call then throws a duplicate key error.
DuplicateKey(s, userId, teamId) ==
  /\ uniqueUserId
  /\ \E r \in s : r.userId = userId /\ r.teamId # teamId

\* The most records the model lets the collection hold.
MaxRecords == 2

\* -------------------------------------------------------------- the response

NoRequest ==
  [op |-> "none", req |-> None, seen |-> None, calls |-> <<>>, remote |-> None,
   status |-> 0, kind |-> "none", body |-> None, cookies |-> <<>>]

\* One handled request: the handler, its inputs, what the server read of the
\* client's cookies, the remote calls made in order, the remote outcome, and the
\* response (status, kind of body, body, Set-Cookie headers).
Handled(op, req, seen, calls, remote, status, kind, body, cookies) ==
  [op |-> op, req |-> req, seen |-> seen, calls |-> calls, remote |-> remote,
   status |-> status, kind |-> kind, body |-> body, cookies |-> cookies]

Init ==
  /\ revision \in Revisions
  \* NODE_ENV decides cookie options in R3 only, the schema matters to R1 only.
  /\ production \in IF revision = "R3" THEN BOOLEAN ELSE {FALSE}
  /\ SLACK_BOT_TOKEN \in {None, BotToken}
  /\ uniqueUserId \in IF revision = "R1" THEN BOOLEAN ELSE {FALSE}
  /\ store = {}
  /\ jar = {}
  /\ inflight = {}
  /\ last = NoRequest

\* ------------------------------------------------------ the remote platform

\* What axios.post to oauth.v2.access can produce: a rejected promise (a
\* transport failure; error is error.response?.data?.error) or a response body
\* with any of ok, access_token, authed_user, team present or missing.
ExchangeOutcomes ==
  {[kind |-> "throw", ok |-> FALSE, access_token |-> None, authed_user |-> None,
    team |-> None, error |-> e] : e \in RemoteErrors \cup {None}}
  \cup
  {[kind |-> "data", ok |-> TRUE, access_token |-> t, authed_user |-> u,
    team |-> tm, error |-> None] :
      t \in Tokens \cup {None}, u \in Users \cup {None}, tm \in Teams \cup {None}}
  \cup
  {[kind |-> "data", ok |-> FALSE, access_token |-> None, authed_user |-> None,
    team |-> None, error |-> e] : e \in RemoteErrors \cup {None}}
  \cup
  {[kind |-> "data", ok |-> FALSE, access_token |-> "xoxp-1", authed_user |-> "U1",
    team |-> "T1", error |-> "invalid_code"]}

\* What slack.auth.test() can produce: the WebClient resolves with the identity
\* of the token's user or rejects (an invalid, revoked or missing token, or a
\* transport failure).
AuthTestOutcomes ==
  {[kind |-> "throw", user_id |-> None, team |-> None]} \cup
  {[kind |-> "ok", user_id |-> u, team |-> "T1"] : u \in Users}

\* What slack.users.info() can produce.
UserInfoOutcomes == {"ok", "throw"}

\* A redirect to the frontend with its query parameters.
Frontend(auth_success, auth_error, reason, user_id, logout_success) ==
  [to |-> "frontend", auth_success |-> auth_success, auth_error |-> auth_error,
   reason |-> reason, user_id |-> user_id, logout_success |-> logout_success]

\* The call of the code-for-token exchange.
ExchangeCall(code) == [api |-> "oauth.v2.access", token |-> None, arg |-> code]

\* A call of the WebClient made with a token.
ApiCall(api, token, arg) == [api |-> api, token |-> token, arg |-> arg]

\* ---------------------------------------------------------- GET /auth/slack

\* R1: a random state goes into the authorize URL and nowhere else.
AuthSlackR1 ==
  /\ revision = "R1"
  /\ \E state \in Nonces :
       last' = Handled("authSlack", None, None, <<>>, None, 302, "redirect",
                       [to |-> "authorize", state |-> state], <<>>)
  /\ UNCHANGED <<config, inflight, store, jar>>

\* R2: the state is kept in a cookie of domain .onrender.com scoped to the
\* callback path.
AuthSlackR2 ==
  /\ revision = "R2"
  /\ \E state \in Nonces :
       LET cookies == <<SetCookie("slack_auth_state", state, RenderDomain, CallbackPath)>>
       IN  /\ last' = Handled("authSlack", None, None, <<>>, None, 302, "redirect",
                              [to |-> "authorize", state |-> state], cookies)
           /\ jar' = JarApply(jar, cookies)
  /\ UNCHANGED <<config, inflight, store>>

\* The Domain of the cookies of R3: the backend's in production, none otherwise.
CookieDomainR3 == IF production THEN BackendDomain ELSE None

\* R3: the state is kept in a cookie of path "/".
AuthSlackR3 ==
  /\ revision = "R3"
  /\ \E state \in Nonces :
       LET cookies == <<SetCookie("slack_auth_state", state, CookieDomainR3, "/")>>
       IN  /\ last' = Handled("authSlack", None, None, <<>>, None, 302, "redirect",
                              [to |-> "authorize", state |-> state], cookies)
           /\ jar' = JarApply(jar, cookies)
  /\ UNCHANGED <<config, inflight, store>>

\* ------------------------------------------------- GET /auth/slack/callback

\* The state check of R2 and R3: !storedState || storedState !== state.
StateMismatch(storedState, state) == Falsy(storedState) \/ storedState # state

\* The response check of R1.
InvalidResponseR1(x) ==
  ~x.ok \/ Falsy(x.access_token) \/ x.authed_user = None \/ x.team = None

\* R1: no state check and no stored state; the token of a complete response is
\* upserted under { userId, teamId }.  seen.db tells how the store answered.
CallbackR1 ==
  /\ revision = "R1"
  /\ \E code \in Codes \cup {None}, state \in Nonces \cup {None} :
       LET req == [code |-> code, state |-> state]
           seen == [storedState |-> None, db |-> "unused", overlap |-> FALSE]
           calls == <<ExchangeCall(code)>>
       IN
       IF Falsy(code) THEN
         /\ last' = Handled("callback", req, seen, <<>>, None, 302, "redirect",
                            Frontend(None, "missing_code", None, None, None), <<>>)
         /\ store' = store
       ELSE \E x \in ExchangeOutcomes :
         IF x.kind = "throw" THEN
           /\ last' = Handled("callback", req, seen, calls, x, 302, "redirect",
                              Frontend(None, "server_error", None, None, None), <<>>)
           /\ store' = store
         ELSE IF InvalidResponseR1(x) THEN
           /\ last' = Handled("callback", req, seen, calls, x, 302, "redirect",
                              Frontend(None, "invalid_response", None, None, None),
                              <<>>)
           /\ store' = store
         ELSE \E dbUp \in BOOLEAN :
           IF ~dbUp \/ DuplicateKey(store, x.authed_user, x.team) THEN
             /\ last' = Handled("callback", req,
                                [seen EXCEPT !.db = IF dbUp THEN "duplicate" ELSE "down"],
                                calls, x, 302, "redirect",
                                Frontend(None, "server_error", None, None, None), <<>>)
             /\ store' = store
           ELSE
             /\ Cardinality(Upsert(store, x.authed_user, x.team, x.access_token))
                  <= MaxRecords
             /\ last' = Handled("callback", req, [seen EXCEPT !.db = "ok"], calls, x,
                                302, "redirect",
                                Frontend("1", None, None, x.authed_user, None), <<>>)
             /\ store' = Upsert(store, x.authed_user, x.team, x.access_token)
  /\ UNCHANGED <<config, inflight, jar>>

\* The most callbacks of R1 suspended at once.
MaxInflight == 2

\* The exchange responses that take the callback of R1 to its store write.
CompleteOutcomes == {x \in ExchangeOutcomes : x.kind = "data" /\ ~InvalidResponseR1(x)}

\* R1, served concurrently: the callback up to await Token.findOneAndUpdate.
\* The exchange has answered with a complete response and the handler is
\* suspended before the write; other requests are served meanwhile.  overlap
\* tells whether another callback was suspended at the same time.  The handler
\* never reads the state parameter, so the requests are drawn without one.
CallbackR1Await ==
  /\ revision = "R1"
  /\ Cardinality(inflight) < MaxInflight
  /\ \E code \in Codes, x \in CompleteOutcomes :
       /\ \A e \in inflight : e.x # x
       /\ inflight' = {[e EXCEPT !.overlap = TRUE] : e \in inflight} \cup
                      {[req |-> [code |-> code, state |-> None], x |-> x,
                        overlap |-> inflight # {}]}
  /\ last' = NoRequest
  /\ UNCHANGED <<config, store, jar>>

\* R1, served concurrently: a suspended callback resumes with the store's
\* answer to findOneAndUpdate, one atomic operation of the store, and responds.
CallbackR1Resume ==
  /\ revision = "R1"
  /\ \E e \in inflight, dbUp \in BOOLEAN :
       LET x == e.x
           seen == [storedState |-> None, db |-> "ok", overlap |-> e.overlap]
           calls == <<ExchangeCall(e.req.code)>>
       IN
       /\ inflight' = inflight \ {e}
       /\ IF ~dbUp \/ DuplicateKey(store, x.authed_user, x.team) THEN
            /\ last' = Handled("callback", e.req,
                               [seen EXCEPT !.db = IF dbUp THEN "duplicate" ELSE "down"],
                               calls, x, 302, "redirect",
                               Frontend(None, "server_error", None, None, None), <<>>)
            /\ store' = store
          ELSE
            /\ Cardinality(Upsert(store, x.authed_user, x.team, x.access_token))
                 <= MaxRecords
            /\ last' = Handled("callback", e.req, seen, calls, x, 302, "redirect",
                               Frontend("1", None, None, x.authed_user, None), <<>>)
            /\ store' = Upsert(store, x.authed_user, x.team, x.access_token)
  /\ UNCHANGED <<config, jar>>

\* R2: the state check, then the session cookie is set from whatever the
\* response holds.
CallbackR2 ==
  /\ revision = "R2"
  /\ \E code \in Codes \cup {None}, state \in Nonces \cup {None},
        storedState \in ReqCookie(jar, "slack_auth_state", CallbackPath) :
       LET req == [code |-> code, state |-> state]
           seen == [storedState |-> storedState]
           calls == <<ExchangeCall(code)>>
       IN
       IF StateMismatch(storedState, state) THEN
         /\ last' = Handled("callback", req, seen, <<>>, None, 400, "text",
                            "Invalid state parameter", <<>>)
         /\ jar' = jar
       ELSE \E x \in ExchangeOutcomes :
         LET cookies == <<SetCookie("slack_access_token", x.access_token, None, "/")>>
         IN
         IF x.kind = "throw" THEN
           /\ last' = Handled("callback", req, seen, calls, x, 302, "redirect",
                              Frontend(None, "1", None, None, None), <<>>)
           /\ jar' = jar
         ELSE
           /\ last' = Handled("callback", req, seen, calls, x, 302, "redirect",
                              Frontend("1", None, None, None, None), cookies)
           /\ jar' = JarApply(jar, cookies)
  /\ UNCHANGED <<config, inflight, store>>

\* R3: the state check, the ok check, then the session cookie, the visible flag
\* and the clearing of the state cookie.
CallbackR3 ==
  /\ revision = "R3"
  /\ \E code \in Codes \cup {None}, state \in Nonces \cup {None},
        storedState \in ReqCookie(jar, "slack_auth_state", CallbackPath) :
       LET req == [code |-> code, state |-> state]
           seen == [storedState |-> storedState]
           calls == <<ExchangeCall(code)>>
       IN
       IF StateMismatch(storedState, state) THEN
         /\ last' = Handled("callback", req, seen, <<>>, None, 400, "text",
                            "Invalid state parameter", <<>>)
         /\ jar' = jar
       ELSE \E x \in ExchangeOutcomes :
         LET cookies ==
               << SetCookie("slack_access_token", x.access_token, CookieDomainR3, "/"),
                  SetCookie("slack_auth_visible", "true",
                            IF production THEN FrontendDomain ELSE None, "/"),
                  ClearCookie("slack_auth_state", CookieDomainR3, "/") >>
         IN
         IF x.kind = "throw" THEN
           /\ last' = Handled("callback", req, seen, calls, x, 302, "redirect",
                              Frontend(None, "1",
                                       IF Falsy(x.error) THEN "unknown" ELSE x.error,
                                       None, None), <<>>)
           /\ jar' = jar
         ELSE IF ~x.ok THEN
           /\ last' = Handled("callback", req, seen, calls, x, 302, "redirect",
                              Frontend(None, "1", None, None, None), <<>>)
           /\ jar' = jar
         ELSE
           /\ last' = Handled("callback", req, seen, calls, x, 302, "redirect",
                              Frontend("1", None, None, None, None), cookies)
           /\ jar' = JarApply(jar, cookies)
  /\ UNCHANGED <<config, inflight, store>>


\* ---------------------------------------------------------- GET /auth/status

\* The body of a session check.
StatusBody(authenticated, user, error) ==
  [authenticated |-> authenticated, user |-> user, error |-> error]

\* findOne found nothing.
NoEntry == [userId |-> None, teamId |-> None, accessToken |-> None]

\* Token.findOne({ userId }) resolves with a matching record or with null.
FindOne(s, userId) ==
  IF FindByUser(s, userId) = {} THEN {NoEntry} ELSE FindByUser(s, userId)

\* The store failure answered like a missing record.
StoreDownAsNoToken == [status |-> 200, error |-> "No token found"]

\* R1: the catch of the session check, taken when Token.findOne rejects.
StoreDownStatus == [status |-> 500, error |-> "Token validation failed"]

\* R1: the token is looked up in the store under the userId of the query.
\* seen.db tells how the store answered, seen.found whether it held a record.
AuthStatusR1 ==
  /\ revision = "R1"
  /\ \E userId \in Users \cup {None}, dbUp \in BOOLEAN,
        a \in AuthTestOutcomes, ui \in UserInfoOutcomes :
     \E tokenEntry \in FindOne(store, userId) :
       LET req == [userId |-> userId]
           seen == [token |-> tokenEntry.accessToken, db |-> "ok",
                    found |-> tokenEntry # NoEntry]
           test == ApiCall("auth.test", tokenEntry.accessToken, None)
           info == ApiCall("users.info", tokenEntry.accessToken, a.user_id)
       IN
       IF Falsy(userId) THEN
         last' = Handled("authStatus", req,
                         [token |-> None, db |-> "unused", found |-> FALSE],
                         <<>>, None, 400, "json",
                         StatusBody(FALSE, None, "Missing userId"), <<>>)
       ELSE IF ~dbUp THEN
         last' = Handled("authStatus", req,
                         [token |-> None, db |-> "down", found |-> FALSE],
                         <<>>, None, StoreDownStatus.status, "json",
                         StatusBody(FALSE, None, StoreDownStatus.error), <<>>)
       ELSE IF tokenEntry = NoEntry THEN
         last' = Handled("authStatus", req, seen, <<>>, None, 200, "json",
                         StatusBody(FALSE, None, "No token found"), <<>>)
       ELSE IF Falsy(tokenEntry.accessToken) THEN
         last' = Handled("authStatus", req, seen, <<>>, None, 200, "json",
                         StatusBody(FALSE, None, "Invalid token"), <<>>)
       ELSE IF a.kind = "throw" THEN
         last' = Handled("authStatus", req, seen, <<test>>, a, 500, "json",
                         StatusBody(FALSE, None, "Token validation failed"), <<>>)
       ELSE IF ui = "throw" THEN
         last' = Handled("authStatus", req, seen, <<test, info>>, a, 500, "json",
                         StatusBody(FALSE, None, "Token validation failed"), <<>>)
       ELSE
         last' = Handled("authStatus", req, seen, <<test, info>>, a, 200, "json",
                         StatusBody(TRUE, [id |-> a.user_id, team |-> a.team], None),
                         <<>>)
  /\ UNCHANGED <<config, inflight, store, jar>>

\* The short circuit of R2 and R3 left out: a check that always goes on to
\* the remote identity check.
NoSessionTokenNever(token) == FALSE

\* if (!token) of R2 and R3: the request carries no session cookie.
NoSessionToken(token) == Falsy(token)

\* R2: the token is the session cookie; a failed identity check clears it.
AuthStatusR2 ==
  /\ revision = "R2"
  /\ \E token \in ReqCookie(jar, "slack_access_token", "/auth/status"),
        a \in AuthTestOutcomes :
       LET seen == [token |-> token]
           test == ApiCall("auth.test", token, None)
           cookies == <<ClearCookie("slack_access_token", None, "/")>>
       IN
       IF NoSessionToken(token) THEN
         /\ last' = Handled("authStatus", None, seen, <<>>, None, 200, "json",
                            StatusBody(FALSE, None, None), <<>>)
         /\ jar' = jar
       ELSE IF a.kind = "throw" THEN
         /\ last' = Handled("authStatus", None, seen, <<test>>, a, 200, "json",
                            StatusBody(FALSE, None, None), cookies)
         /\ jar' = JarApply(jar, cookies)
       ELSE
         /\ last' = Handled("authStatus", None, seen, <<test>>, a, 200, "json",
                            StatusBody(TRUE, [id |-> a.user_id, team |-> a.team], None),
                            <<>>)
         /\ jar' = jar
  /\ UNCHANGED <<config, inflight, store>>

\* R3: as R2, with the profile fetch inside the same try.
AuthStatusR3 ==
  /\ revision = "R3"
  /\ \E token \in ReqCookie(jar, "slack_access_token", "/auth/status"),
        a \in AuthTestOutcomes, ui \in UserInfoOutcomes :
       LET seen == [token |-> token]
           test == ApiCall("auth.test", token, None)
           info == ApiCall("users.info", token, a.user_id)
           cookies == <<ClearCookie("slack_access_token", None, "/")>>
       IN
       IF NoSessionToken(token) THEN
         /\ last' = Handled("authStatus", None, seen, <<>>, None, 200, "json",
                            StatusBody(FALSE, None, None), <<>>)
         /\ jar' = jar
       ELSE IF a.kind = "throw" THEN
         /\ last' = Handled("authStatus", None, seen, <<test>>, a, 200, "json",
                            StatusBody(FALSE, None, None), cookies)
         /\ jar' = JarApply(jar, cookies)
       ELSE IF ui = "throw" THEN
         /\ last' = Handled("authStatus", None, seen, <<test, info>>, a, 200, "json",
                            StatusBody(FALSE, None, None), cookies)
         /\ jar' = JarApply(jar, cookies)
       ELSE
         /\ last' = Handled("authStatus", None, seen, <<test, info>>, a, 200, "json",
                            StatusBody(TRUE, [id |-> a.user_id, team |-> a.team], None),
                            <<>>)
         /\ jar' = jar
  /\ UNCHANGED <<config, inflight, store>>

\* ------------------------------------------------ the store routes of R1

\* GET /slack/token/:userId
TokenLookup ==
  /\ revision = "R1"
  /\ \E userId \in Users, dbUp \in BOOLEAN :
     \E tokenEntry \in FindOne(store, userId) :
       LET req == [userId |-> userId]
           seen == [db |-> IF dbUp THEN "ok" ELSE "down",
                    found |-> dbUp /\ tokenEntry # NoEntry]
       IN
       IF ~dbUp THEN
         last' = Handled("tokenLookup", req, seen, <<>>, None, 500, "json",
                         [error |-> "Server error", accessToken |-> None], <<>>)
       ELSE IF tokenEntry = NoEntry THEN
         last' = Handled("tokenLookup", req, seen, <<>>, None, 404, "json",
                         [error |-> "Token not found", accessToken |-> None], <<>>)
       ELSE
         last' = Handled("tokenLookup", req, seen, <<>>, None, 200, "json",
                         [error |-> None, accessToken |-> tokenEntry.accessToken], <<>>)
  /\ UNCHANGED <<config, inflight, store, jar>>

\* DELETE /logout/:userId: findOneAndDelete removes one matching record.
LogoutUser ==
  /\ revision = "R1"
  /\ \E userId \in Users, dbUp \in BOOLEAN :
     \E result \in FindOne(store, userId) :
       LET req == [userId |-> userId]
           seen == [db |-> IF dbUp THEN "ok" ELSE "down",
                    found |-> dbUp /\ result # NoEntry]
       IN
       IF ~dbUp THEN
         /\ last' = Handled("logoutUser", req, seen, <<>>, None, 500, "json",
                            [error |-> "Logout failed", message |-> None], <<>>)
         /\ store' = store
       ELSE IF result = NoEntry THEN
         /\ last' = Handled("logoutUser", req, seen, <<>>, None, 404, "json",
                            [error |-> None, message |-> "No session found for user"],
                            <<>>)
         /\ store' = store
       ELSE
         /\ last' = Handled("logoutUser", req, seen, <<>>, None, 200, "json",
                            [error |-> None, message |-> "User logged out successfully"],
                            <<>>)
         /\ store' = store \ {result}
  /\ UNCHANGED <<config, inflight, jar>>

\* ---------------------------------------------------------- GET /auth/logout

AuthLogoutR2 ==
  /\ revision = "R2"
  /\ LET cookies == <<ClearCookie("slack_access_token", None, "/")>> IN
       /\ last' = Handled("authLogout", None, None, <<>>, None, 302, "redirect",
                          Frontend(None, None, None, None, "1"), cookies)
       /\ jar' = JarApply(jar, cookies)
  /\ UNCHANGED <<config, inflight, store>>

AuthLogoutR3 ==
  /\ revision = "R3"
  /\ LET cookies == << ClearCookie("slack_access_token", BackendDomain, "/"),
                       ClearCookie("slack_auth_visible", FrontendDomain, "/") >> IN
       /\ last' = Handled("authLogout", None, None, <<>>, None, 302, "redirect",
                          Frontend(None, None, None, None, "1"), cookies)
       /\ jar' = JarApply(jar, cookies)
  /\ UNCHANGED <<config, inflight, store>>

\* --------------------------------------------------------------- GET /health

\* R3: the handler builds { status, cookies: req.cookies, env: { NODE_ENV:
\* NODE_ENV, ... } }, and NODE_ENV is declared nowhere in the file: evaluating
\* it throws a ReferenceError before anything is sent, and the error middleware
\* answers 500 { error: "Internal server error" }.
HealthR3 ==
  /\ revision = "R3"
  /\ \E token \in ReqCookie(jar, "slack_access_token", "/health") :
       last' = Handled("health", None, [token |-> token], <<>>, None, 500, "json",
                       [error |-> "Internal server error"], <<>>)
  /\ UNCHANGED <<config, inflight, store, jar>>

\* ------------------------------------------------------------ the client

\* A cookie leaves the jar without the server: it expires (maxAge) or the user
\* removes it.
ClientDropsCookie ==
  /\ \E c \in jar : jar' = jar \ {c}
  /\ last' = NoRequest
  /\ UNCHANGED <<config, inflight, store>>


\* ------------------------------------------------------ JavaScript values

JsUndefined == [t |-> "undefined", n |-> 0]

JsNull == [t |-> "null", n |-> 0]

JsNaN == [t |-> "NaN", n |-> 0]

\* The number n.
JsNum(n) == [t |-> "number", n |-> n]

\* The text of the number n, such as "0" or "1700000000".
JsNumStr(n) == [t |-> "numstr", n |-> n]

\* A non-empty text that is no number, such as "tomorrow".
JsText == [t |-> "text", n |-> 0]

\* The truthiness of a value: 0, NaN, null and undefined are falsy, every
\* non-empty text is truthy ("0" included).
JsTruthy(v) ==
  CASE v.t = "number" -> v.n # 0
    [] v.t = "numstr" -> TRUE
    [] v.t = "text" -> TRUE
    [] OTHER -> FALSE

\* Number(v)
JsNumber(v) ==
  CASE v.t = "number" -> v
    [] v.t = "numstr" -> JsNum(v.n)
    [] v.t = "null" -> JsNum(0)
    [] OTHER -> JsNaN

\* ------------------------------------------------------- the chat client

\* 120 * 24 * 60 * 60 seconds.
ScheduleWindow == 120 * 24 * 60 * 60

\* What a call of the WebClient's chat API can produce: a result, a platform
\* error (error.data.error is the remote's error string) or a request error
\* (no error.data), or a thrown value with no message at all.
ChatOutcomes ==
  { [kind |-> "ok", error |-> None, message |-> None],
    [kind |-> "throw", error |-> "channel_not_found",
     message |-> "An API error occurred: channel_not_found"],
    [kind |-> "throw", error |-> None, message |-> "A request error occurred"],
    [kind |-> "throw", error |-> None, message |-> ""] }

\* A function of the chat client returned a result after these calls.
Returned(calls) == [calls |-> calls, threw |-> FALSE, message |-> None]

\* A function of the chat client threw new Error(message) after these calls.
Thrown(calls, message) == [calls |-> calls, threw |-> TRUE, message |-> message]

\* error.data?.error || error.message || "Slack API error"
SendErrorMsg(r) ==
  IF ~Falsy(r.error) THEN r.error
  ELSE IF ~Falsy(r.message) THEN r.message
  ELSE "Slack API error"

\* sendMessage(channel, text, postAt, token) run at time now, the remote
\* answering r.
sendMessage(channel, text, postAt, token, now, r) ==
  LET timestamp == IF JsTruthy(postAt) THEN JsNumber(postAt) ELSE JsNull
      schedule == ApiCall("chat.scheduleMessage", token,
                          [channel |-> channel, text |-> text, post_at |-> timestamp.n])
      post == ApiCall("chat.postMessage", token,
                      [channel |-> channel, text |-> text, post_at |-> 0])
  IN  IF JsTruthy(timestamp) THEN
        IF timestamp.n <= now
          THEN Thrown(<<>>, "Scheduled time must be in the future")
        ELSE IF timestamp.n > now + ScheduleWindow
          THEN Thrown(<<>>, "Cannot schedule beyond 120 days")
        ELSE IF r.kind = "throw" THEN Thrown(<<schedule>>, SendErrorMsg(r))
        ELSE Returned(<<schedule>>)
      ELSE IF r.kind = "throw" THEN Thrown(<<post>>, SendErrorMsg(r))
      ELSE Returned(<<post>>)

\* --------------------------------------------------------- /api/messages

\* req.cookies.slack_access_token || SLACK_BOT_TOKEN
ResolveToken(cookie) == IF ~Falsy(cookie) THEN cookie ELSE SLACK_BOT_TOKEN

Channels == {"C1"}

\* Texts of a request body: missing, empty, blank, and a message.
Texts == {None, "", "  ", "hello"}

\* The trimming left out: only the empty text counts as blank.
BlankOnlyEmpty(text) == text = ""

\* text.trim() === ""
Blank(text) == text \in {"", "  "}

\* The clock of the server, in epoch seconds.
MaxClock == 1

Clock == 1..MaxClock

\* The postAt values of a request body at time now.
PostAts(now) ==
  { JsUndefined, JsNum(0), JsNumStr(0), JsText,
    JsNum(now - 10), JsNum(now), JsNum(now + 1),
    JsNum(now + ScheduleWindow), JsNum(now + ScheduleWindow + 1) }

\* The body of an error response of the message routes.
ErrorBody(error, details) == [ok |-> FALSE, error |-> error, details |-> details]

\* A chat outcome that is a result.
ChatOk == [kind |-> "ok", error |-> None, message |-> None]

\* POST /api/messages, the same in the three revisions.  A request that fails
\* validation is drawn without postAt, and the remote's answer is drawn only
\* when sendMessage reaches the remote.
PostMessage ==
  /\ \E cookie \in ReqCookie(jar, "slack_access_token", "/api/messages"),
        channel \in Channels \cup {None}, text \in Texts, now \in Clock :
       LET token == ResolveToken(cookie)
           seen == [cookie |-> cookie, token |-> token]
           bad == [channel |-> channel, text |-> text, postAt |-> JsUndefined,
                   now |-> now]
       IN
       IF Falsy(channel) THEN
         last' = Handled("postMessage", bad, seen, <<>>, None, 400, "json",
                         ErrorBody("Missing channel ID", "No additional details"), <<>>)
       ELSE IF Falsy(text) \/ Blank(text) THEN
         last' = Handled("postMessage", bad, seen, <<>>, None, 400, "json",
                         ErrorBody("Message text cannot be empty",
                                   "No additional details"), <<>>)
       ELSE \E postAt \in PostAts(now) :
         LET req == [channel |-> channel, text |-> text, postAt |-> postAt,
                     now |-> now]
             timestamp == IF JsTruthy(postAt) THEN JsNumber(postAt) ELSE JsNull
         IN
         \E r \in IF sendMessage(channel, text, timestamp, token, now, ChatOk).calls = <<>>
                  THEN {ChatOk} ELSE ChatOutcomes :
           LET sent == sendMessage(channel, text, timestamp, token, now, r) IN
           IF sent.threw THEN
             last' = Handled("postMessage", req, seen, sent.calls,
                             IF sent.calls = <<>> THEN None ELSE r, 400, "json",
                             ErrorBody(sent.message, "No additional details"), <<>>)
           ELSE
             last' = Handled("postMessage", req, seen, sent.calls, r, 200, "json",
                             [ok |-> TRUE, error |-> None, details |-> None], <<>>)
  /\ UNCHANGED <<config, inflight, store, jar>>

\* ------------------------------------------- GET, PUT, DELETE /api/messages

\* parseFloat(v) of a query parameter: the number a numeric text starts with,
\* NaN for any other text.
JsParseFloat(v) ==
  CASE v.t = "numstr" -> JsNum(v.n)
    [] v.t = "number" -> JsNum(v.n)
    [] OTHER -> JsNaN

\* The messages of a history response, by their ts.
History == {<<>>, <<5>>, <<5, 7>>}

\* What slack.conversations.history can produce: a response with a messages
\* field, a response without one, a platform error, a request error.
HistoryOutcomes ==
  {[kind |-> "ok", has |-> TRUE, messages |-> m, error |-> None, message |-> None] :
     m \in History}
  \cup
  { [kind |-> "ok", has |-> FALSE, messages |-> <<>>, error |-> None, message |-> None],
    [kind |-> "throw", has |-> FALSE, messages |-> <<>>, error |-> "channel_not_found",
     message |-> "An API error occurred: channel_not_found"],
    [kind |-> "throw", has |-> FALSE, messages |-> <<>>, error |-> None,
     message |-> "A request error occurred"] }

\* A function of the chat client returned value after these calls.
ReturnedValue(calls, value) ==
  [calls |-> calls, threw |-> FALSE, message |-> None, value |-> value]

\* The declared error dropped: every list failure reported by the generic text.
ListErrorMsgGeneric(e) == "Failed to retrieve messages"

\* error.data?.error || "Failed to retrieve messages"
ListErrorMsg(e) == IF ~Falsy(e.error) THEN e.error ELSE "Failed to retrieve messages"

\* The options getMessages passes to conversations.history.
HistoryOptions(params) ==
  [channel |-> params.channel, inclusive |-> TRUE, limit |-> 100,
   oldest |-> IF JsTruthy(params.ts) THEN params.ts
              ELSE IF JsTruthy(params.oldest) THEN params.oldest ELSE JsUndefined,
   latest |-> IF JsTruthy(params.ts) THEN params.ts
              ELSE IF JsTruthy(params.latest) THEN params.latest ELSE JsUndefined]

\* msg => ({ ...msg, humanTime: new Date(parseFloat(msg.ts) * 1000) }): the
\* instant in milliseconds.
WithHumanTime(messages) ==
  [i \in 1..Len(messages) |-> [ts |-> messages[i], humanTime |-> messages[i] * 1000]]

\* getMessages(params, token), the remote answering r.  The Error thrown for an
\* empty result is thrown inside the try and reaches the same catch as a remote
\* failure.
getMessages(params, token, r) ==
  LET call == ApiCall("conversations.history", token, HistoryOptions(params))
      notFound == [error |-> None, message |-> "No messages found"]
  IN  IF r.kind = "throw" THEN Thrown(<<call>>, ListErrorMsg(r))
      ELSE IF ~r.has \/ Len(r.messages) = 0 THEN Thrown(<<call>>, ListErrorMsg(notFound))
      ELSE ReturnedValue(<<call>>, WithHumanTime(r.messages))

\* error.data?.error || "Failed to edit message"
EditErrorMsg(e) == IF ~Falsy(e.error) THEN e.error ELSE "Failed to edit message"

\* editMessage(channel, ts, text, token), the remote answering r.
editMessage(channel, ts, text, token, r) ==
  LET call == ApiCall("chat.update", token, [channel |-> channel, ts |-> ts, text |-> text])
  IN  IF r.kind = "throw" THEN Thrown(<<call>>, EditErrorMsg(r)) ELSE Returned(<<call>>)

\* error.data?.error || "Failed to delete message"
DeleteErrorMsg(e) == IF ~Falsy(e.error) THEN e.error ELSE "Failed to delete message"

\* deleteMessage(channel, ts, token), the remote answering r.
deleteMessage(channel, ts, token, r) ==
  LET call == ApiCall("chat.delete", token, [channel |-> channel, ts |-> ts])
  IN  IF r.kind = "throw" THEN Thrown(<<call>>, DeleteErrorMsg(r)) ELSE Returned(<<call>>)

\* The ts, oldest and latest parameters of a list request: absent, "0", the text
\* of a number, a text that is no number.
QueryTs == {JsUndefined, JsNumStr(0), JsNumStr(5), JsText}

QueryOldest == {JsUndefined, JsNumStr(0), JsNumStr(3)}

QueryLatest == {JsUndefined, JsNumStr(7)}

\* The ts field of an edit or delete request body.
BodyTs == {JsUndefined, JsNumStr(5)}

\* GET /api/messages, the same in the three revisions.
GetMessages ==
  /\ \E cookie \in ReqCookie(jar, "slack_access_token", "/api/messages"),
        channel \in Channels \cup {None} :
       LET token == ResolveToken(cookie)
           seen == [cookie |-> cookie, token |-> token]
           bad == [channel |-> channel, ts |-> JsUndefined, oldest |-> JsUndefined,
                   latest |-> JsUndefined]
       IN
       IF Falsy(channel) THEN
         last' = Handled("getMessages", bad, seen, <<>>, None, 400, "json",
                         ErrorBody("Channel is required", None), <<>>)
       ELSE \E ts \in QueryTs, oldest \in QueryOldest, latest \in QueryLatest :
         LET req == [channel |-> channel, ts |-> ts, oldest |-> oldest,
                     latest |-> latest]
             params ==
               [channel |-> channel,
                ts |-> IF JsTruthy(ts) THEN JsParseFloat(ts) ELSE JsUndefined,
                oldest |-> IF JsTruthy(oldest) THEN JsParseFloat(oldest) ELSE JsUndefined,
                latest |-> IF JsTruthy(latest) THEN JsParseFloat(latest) ELSE JsUndefined]
         IN
         IF ~JsTruthy(ts) /\ ~JsTruthy(oldest) /\ ~JsTruthy(latest) THEN
           last' = Handled("getMessages", req, seen, <<>>, None, 400, "json",
                           ErrorBody("At least one timestamp or time range is required",
                                     None), <<>>)
         ELSE \E r \in HistoryOutcomes :
           LET listed == getMessages(params, token, r) IN
           IF listed.threw THEN
             last' = Handled("getMessages", req, seen, listed.calls, r, 400, "json",
                             ErrorBody(listed.message, None), <<>>)
           ELSE
             last' = Handled("getMessages", req, seen, listed.calls, r, 200, "json",
                             [ok |-> TRUE, error |-> None, details |-> None,
                              messages |-> listed.value], <<>>)
  /\ UNCHANGED <<config, inflight, store, jar>>

\* PUT /api/messages, the same in the three revisions.
PutMessage ==
  /\ \E cookie \in ReqCookie(jar, "slack_access_token", "/api/messages"),
        channel \in Channels \cup {None}, ts \in BodyTs, text \in Texts :
       LET token == ResolveToken(cookie)
           seen == [cookie |-> cookie, token |-> token]
           req == [channel |-> channel, ts |-> ts, text |-> text]
       IN
       IF Falsy(channel) \/ ~JsTruthy(ts) \/ Falsy(text) THEN
         last' = Handled("putMessage", req, seen, <<>>, None, 400, "json",
                         ErrorBody("All fields are required", None), <<>>)
       ELSE \E r \in ChatOutcomes :
         LET edited == editMessage(channel, ts, text, token, r) IN
         IF edited.threw THEN
           last' = Handled("putMessage", req, seen, edited.calls, r, 400, "json",
                           ErrorBody(edited.message, None), <<>>)
         ELSE
           last' = Handled("putMessage", req, seen, edited.calls, r, 200, "json",
                           [ok |-> TRUE, error |-> None, details |-> None], <<>>)
  /\ UNCHANGED <<config, inflight, store, jar>>

\* DELETE /api/messages, the same in the three revisions.
DeleteMessage ==
  /\ \E cookie \in ReqCookie(jar, "slack_access_token", "/api/messages"),
        channel \in Channels \cup {None}, ts \in BodyTs :
       LET token == ResolveToken(cookie)
           seen == [cookie |-> cookie, token |-> token]
           req == [channel |-> channel, ts |-> ts]
       IN
       IF Falsy(channel) \/ ~JsTruthy(ts) THEN
         last' = Handled("deleteMessage", req, seen, <<>>, None, 400, "json",
                         ErrorBody("Channel and timestamp are required", None), <<>>)
       ELSE \E r \in ChatOutcomes :
         LET deleted == deleteMessage(channel, ts, token, r) IN
         IF deleted.threw THEN
           last' = Handled("deleteMessage", req, seen, deleted.calls, r, 400, "json",
                           ErrorBody(deleted.message, None), <<>>)
         ELSE
           last' = Handled("deleteMessage", req, seen, deleted.calls, r, 200, "json",
                           [ok |-> TRUE, error |-> None, details |-> None], <<>>)
  /\ UNCHANGED <<config, inflight, store, jar>>

\* ------------------------------------------------------- the specification

Next ==
  \/ AuthSlackR1
  \/ AuthSlackR2
  \/ AuthSlackR3
  \/ CallbackR1
  \/ CallbackR2
  \/ CallbackR3
  \/ AuthStatusR1
  \/ AuthStatusR2
  \/ AuthStatusR3
  \/ TokenLookup
  \/ LogoutUser
  \/ AuthLogoutR2
  \/ AuthLogoutR3
  \/ HealthR3
  \/ ClientDropsCookie
  \/ PostMessage

Spec == Init /\ [][Next]_vars

\* The store routes of R1 with callbacks that overlap: a callback may be
\* suspended at its store write while other requests are served.
NextConcurrent ==
  \/ CallbackR1Await
  \/ CallbackR1Resume
  \/ TokenLookup
  \/ LogoutUser

\* The four message routes, with the routes of R3 that give the client a
\* session cookie (the message routes are the same in the three revisions).
NextMessages ==
  \/ AuthSlackR3
  \/ CallbackR3
  \/ PostMessage
  \/ GetMessages
  \/ PutMessage
  \/ DeleteMessage

SpecMessages == Init /\ [][NextMessages]_vars

InitConcurrent == Init /\ revision = "R1"

SpecConcurrent == InitConcurrent /\ [][NextConcurrent]_vars


\* ============================================================== the claims

\* The latest request was a callback that called the remote token endpoint.
ExchangeMade == last.op = "callback" /\ last.calls # <<>>

\* The latest response set the session cookie.
SessionCookieSet ==
  \E i \in 1..Len(last.cookies) :
    last.cookies[i].act = "set" /\ last.cookies[i].name = "slack_access_token"

\* verify(nonce, presented) of the latest callback: a stored nonce is present and
\* the presented state equals it.
NonceVerified ==
  ~Falsy(last.seen.storedState) /\ last.seen.storedState = last.req.state

\* C1: every callback calls the remote token endpoint only if a stored nonce is
\* present and the presented state equals it; otherwise it makes no remote call,
\* persists nothing and sets no session cookie.
C1_ExchangeOnlyAfterNonceCheck ==
  [][ last'.op = "callback" =>
        /\ ExchangeMade' => NonceVerified'
        /\ ~NonceVerified' =>
             last'.calls = <<>> /\ store' = store /\ ~SessionCookieSet' ]_vars

\* The exchange response indicates success and holds a non-empty access token, a
\* user identifier and a team identifier.
CompleteResponse(x) ==
  /\ x.kind = "data"
  /\ x.ok
  /\ ~Falsy(x.access_token)
  /\ ~Falsy(x.authed_user)
  /\ ~Falsy(x.team)

\* C2: a callback persists a credential or sets the session cookie only when the
\* exchange response is a complete success; after a rejected, failed or
\* incomplete response the store is unchanged and no session cookie is set.
C2_NoPartialRecord ==
  [][ (last'.op = "callback" /\ (store' # store \/ SessionCookieSet')) =>
        (ExchangeMade' /\ CompleteResponse(last'.remote)) ]_vars


\* The exchange of the latest callback yielded a complete record and the store
\* was reachable.
ExchangeYieldedRecord ==
  /\ ExchangeMade
  /\ CompleteResponse(last.remote)
  /\ revision = "R1"
  /\ last.seen.db # "down"

\* C3: the store holds at most one record per userId, and after an exchange that
\* yielded a record for a user every lookup of that user returns the token of
\* that exchange, also when an earlier exchange reported another teamId.
C3_OneRecordPerUserLatestToken ==
  /\ \A r1 \in store, r2 \in store : r1.userId = r2.userId => r1 = r2
  /\ ExchangeYieldedRecord =>
       \A r \in FindOne(store, last.remote.authed_user) :
         r.accessToken = last.remote.access_token

\* The state check of R2 and R3 would let a callback presenting state pass.
WouldPassStateCheck(state) ==
  \E storedState \in ReqCookie(jar, "slack_auth_state", CallbackPath) :
    ~StateMismatch(storedState, state)

\* C4: in the revisions that keep a nonce (R2, R3), after any callback,
\* successful or failed, the nonce is consumed: the state cookie is gone and a
\* replay of the same callback fails the state check.
C4_NonceConsumedAfterCallback ==
  (revision # "R1" /\ last.op = "callback") =>
    /\ ReqCookie(jar, "slack_auth_state", CallbackPath) = {None}
    /\ ~WouldPassStateCheck(last.req.state)

\* C5: the token of a message request is the session cookie when the request
\* carries one and the configured fallback otherwise, and is never undefined.
C5_ResolveCookieElseFallback ==
  last.op = "postMessage" =>
    /\ ~Falsy(last.seen.cookie) => last.seen.token = last.seen.cookie
    /\ Falsy(last.seen.cookie) => last.seen.token = SLACK_BOT_TOKEN
    /\ last.seen.token # None


\* C6: a session check that finds no session token answers authenticated: false
\* and calls the remote platform not at all; in the cookie revisions the answer
\* is exactly { authenticated: false } with status 200.
C6_NoTokenNoRemoteCall ==
  (last.op = "authStatus" /\ Falsy(last.seen.token)) =>
    /\ last.kind = "json"
    /\ last.body.authenticated = FALSE
    /\ last.calls = <<>>
    /\ revision # "R1" => (last.status = 200 /\ last.body = StatusBody(FALSE, None, None))

\* C6 witness: a session check of R3 made without a session cookie has been
\* answered.
C6_Witness ==
  /\ revision = "R3"
  /\ last.op = "authStatus"
  /\ last.seen.token = None
  /\ last.body.authenticated = FALSE

\* The latest session check called the remote identity check and found the token
\* invalid: auth.test or the profile fetch inside the same try failed.
FoundInvalid ==
  /\ last.op = "authStatus"
  /\ last.calls # <<>>
  /\ last.body.authenticated = FALSE

\* C7: in the cookie revisions, after a session check that found the token
\* invalid the client presents no session token any more, so the next session
\* check makes no remote call.
C7_InvalidClearsSessionCookie ==
  (revision # "R1" /\ FoundInvalid) =>
    ReqCookie(jar, "slack_access_token", "/auth/status") = {None}

\* The request supplied a schedule time that is a number or the text of one.
NumericPostAt == last.req.postAt.t \in {"number", "numstr"}

\* The latest request was a send with valid channel and text.
ValidSend ==
  /\ last.op = "postMessage"
  /\ ~Falsy(last.req.channel)
  /\ ~Falsy(last.req.text)
  /\ ~Blank(last.req.text)

\* C8: a valid send with a schedule time scheduleAt (0 included) fails with the
\* past-schedule error when scheduleAt <= now and with the too-far error when
\* scheduleAt > now + 120 days, in both cases with status 400 and no remote
\* call; scheduleAt = now + 120 days is scheduled.
C8_ScheduleWindow ==
  (ValidSend /\ NumericPostAt) =>
    LET scheduleAt == last.req.postAt.n
        now == last.req.now
    IN  /\ scheduleAt <= now =>
             /\ last.status = 400
             /\ last.body.error = "Scheduled time must be in the future"
             /\ last.calls = <<>>
        /\ scheduleAt > now + ScheduleWindow =>
             /\ last.status = 400
             /\ last.body.error = "Cannot schedule beyond 120 days"
             /\ last.calls = <<>>
        /\ scheduleAt = now + ScheduleWindow =>
             /\ last.calls # <<>>
             /\ last.calls[1].api = "chat.scheduleMessage"

\* The latest callback did not end in the success redirect.
CallbackFailed ==
  /\ last.op = "callback"
  /\ ~(last.kind = "redirect" /\ last.body.auth_success = "1")

\* C9: every failed callback ends in a redirect to the frontend carrying an
\* error indicator, and a callback of R2 or R3 whose state check fails
\* redirects with auth_error=1&reason=state_mismatch.
C9_FailuresRedirectWithError ==
  CallbackFailed =>
    /\ last.kind = "redirect"
    /\ last.body.to = "frontend"
    /\ ~Falsy(last.body.auth_error)
    /\ (revision # "R1" /\ ~NonceVerified) =>
         (last.body.auth_error = "1" /\ last.body.reason = "state_mismatch")

\* The failure outcome of an exchange: a transport failure, a remote-declared
\* error (not ok, with an error code) or a response that is not a complete
\* success.
FailureClass(x) ==
  IF x.kind = "throw" THEN (IF Falsy(x.error) THEN "ExchangeFailed" ELSE "Unclassified")
  ELSE IF ~x.ok /\ ~Falsy(x.error) THEN "RemoteRejected"
  ELSE IF ~CompleteResponse(x) THEN "InvalidResponse"
  ELSE "None"

FailureClasses == {"ExchangeFailed", "RemoteRejected", "InvalidResponse"}

\* What a callback reports to the frontend.
Report(l) == <<l.kind, l.body>>

\* C10: a callback whose exchange failed reports the failure: a remote-declared
\* error is reported with the remote's error string, and two callbacks whose
\* exchanges failed in different ways report different things.
C10_FailureOutcomesDistinct ==
  [][ /\ (ExchangeMade' /\ FailureClass(last'.remote) \in FailureClasses) =>
           CallbackFailed'
      /\ (ExchangeMade' /\ FailureClass(last'.remote) = "RemoteRejected") =>
           (CallbackFailed' /\ last'.body.reason = last'.remote.error)
      /\ ( /\ ExchangeMade /\ FailureClass(last.remote) \in FailureClasses
           /\ ExchangeMade' /\ FailureClass(last'.remote) \in FailureClasses
           /\ FailureClass(last.remote) # FailureClass(last'.remote) ) =>
           Report(last) # Report(last') ]_vars

\* The latest request was a store-backed logout that the store answered.
LogoutAnswered == last.op = "logoutUser" /\ last.status # 500

\* The latest store-backed logout reported success.
LogoutSucceeded ==
  /\ LogoutAnswered
  /\ last.status = 200
  /\ last.body.message = "User logged out successfully"

\* C11: a store-backed logout reports success exactly when a record of that
\* userId existed and "no session" otherwise, and after a successful logout the
\* store holds no record of that userId, so a lookup or session check of that
\* user finds none.
C11_LogoutDeletesUserRecord ==
  [][ LogoutAnswered' =>
        /\ LogoutSucceeded' <=> (FindByUser(store, last'.req.userId) # {})
        /\ ~LogoutSucceeded' =>
             (last'.status = 404 /\ last'.body.message = "No session found for user")
        /\ LogoutSucceeded' => FindOne(store', last'.req.userId) = {NoEntry} ]_vars

\* C12: after GET /auth/logout the client presents no session cookie any more,
\* in production and outside it: the next session check finds no token and a
\* message request resolves to the fallback token.
C12_LogoutClearsSessionCookie ==
  last.op = "authLogout" =>
    /\ ReqCookie(jar, "slack_access_token", "/auth/status") = {None}
    /\ \A cookie \in ReqCookie(jar, "slack_access_token", "/api/messages") :
         ResolveToken(cookie) = SLACK_BOT_TOKEN

\* The latest response ends a callback that was suspended at its store write
\* together with another callback, and the store was reachable.
OverlappedWrite ==
  /\ last.op = "callback"
  /\ last.seen.overlap
  /\ last.seen.db # "down"

\* C13: however callbacks with successful exchanges overlap, after the write of
\* one of them the store holds exactly one record of that userId, and it is the
\* whole record of that write: its token and its teamId, no second record and no
\* mix of two writes.
C13_ConcurrentCallbacksLastWriteWins ==
  OverlappedWrite =>
    FindByUser(store, last.remote.authed_user) =
      {[userId |-> last.remote.authed_user, teamId |-> last.remote.team,
        accessToken |-> last.remote.access_token]}

\* The remote identity check of the latest session check succeeded.
IdentityConfirmed ==
  /\ last.op = "authStatus"
  /\ last.calls # <<>>
  /\ last.remote.kind = "ok"

\* C14: a session check whose identity check succeeded reports the user as
\* authenticated and leaves the session token in place, whether or not the
\* profile fetch that follows succeeds.
C14_ProfileFailureKeepsSession ==
  IdentityConfirmed =>
    /\ last.body.authenticated = TRUE
    /\ last.body.user.id = last.remote.user_id
    /\ last.cookies = <<>>

\* The latest request was one of the four message operations.
MessageOp == last.op \in {"postMessage", "getMessages", "putMessage", "deleteMessage"}

\* The text is missing or empty after trimming.
TrimmedEmpty(text) == text \in {None, "", "  "}

\* The latest message request lacks a required input.
MissingInput ==
  CASE last.op = "postMessage" ->
         Falsy(last.req.channel) \/ TrimmedEmpty(last.req.text)
    [] last.op = "getMessages" ->
         \/ Falsy(last.req.channel)
         \/ /\ last.req.ts = JsUndefined
            /\ last.req.oldest = JsUndefined
            /\ last.req.latest = JsUndefined
    [] last.op = "putMessage" ->
         Falsy(last.req.channel) \/ last.req.ts = JsUndefined \/ Falsy(last.req.text)
    [] last.op = "deleteMessage" ->
         Falsy(last.req.channel) \/ last.req.ts = JsUndefined
    [] OTHER -> FALSE

\* C15: a message request that lacks a required input is answered with status
\* 400 and an error message and makes no remote call; a send with channel "C1"
\* and text "" is answered with the error "Message text cannot be empty".
C15_MissingInputRejected ==
  (MessageOp /\ MissingInput) =>
    /\ last.status = 400
    /\ last.kind = "json"
    /\ ~Falsy(last.body.error)
    /\ last.calls = <<>>
    /\ (last.op = "postMessage" /\ last.req.channel = "C1" /\ last.req.text = "") =>
         last.body.error = "Message text cannot be empty"

\* C15 witness: a send with channel "C1" and a text of blanks only has been
\* rejected.
C15_Witness ==
  /\ last.op = "postMessage"
  /\ last.req.channel = "C1"
  /\ last.req.text = "  "
  /\ last.status = 400
  /\ last.calls = <<>>

\* The latest request was a list whose history call the remote answered.
HistoryAnswered ==
  /\ last.op = "getMessages"
  /\ last.calls # <<>>
  /\ last.remote.kind = "ok"

\* C16: a list whose history result is empty or has no messages field fails
\* with the error "No messages found" and is never a success; a non-empty
\* result is a success with one entry per remote message.
C16_EmptyListIsNotFound ==
  HistoryAnswered =>
    IF ~last.remote.has \/ last.remote.messages = <<>> THEN
      /\ last.status = 400
      /\ last.body.error = "No messages found"
    ELSE
      /\ last.status = 200
      /\ Len(last.body.messages) = Len(last.remote.messages)
      /\ \A i \in 1..Len(last.remote.messages) :
           last.body.messages[i].ts = last.remote.messages[i]

\* The number a supplied list parameter stands for, undefined when absent.
Supplied(v) == IF v = JsUndefined THEN JsUndefined ELSE JsParseFloat(v)

\* C17: the history query of a list request is inclusive; with a ts it has
\* oldest = latest = ts whatever oldest and latest the request carries, and
\* without a ts it has exactly the supplied oldest and latest.
C17_PointInTimeCollapsesRange ==
  (last.op = "getMessages" /\ last.calls # <<>>) =>
    LET options == last.calls[1].arg IN
    /\ options.inclusive
    /\ last.req.ts # JsUndefined =>
         /\ options.oldest = Supplied(last.req.ts)
         /\ options.latest = Supplied(last.req.ts)
    /\ last.req.ts = JsUndefined =>
         /\ options.oldest = Supplied(last.req.oldest)
         /\ options.latest = Supplied(last.req.latest)

\* The remote call of the latest message request failed without a declared
\* error: a transport failure.
TransportFailure ==
  /\ MessageOp
  /\ last.calls # <<>>
  /\ last.remote.kind = "throw"
  /\ Falsy(last.remote.error)

\* C18: an error response of a message operation has an error text, status 400
\* when the request failed validation and status 500 when the remote call
\* failed in transport.
C18_StatusFollowsErrorClass ==
  (MessageOp /\ last.status # 200) =>
    /\ last.kind = "json"
    /\ last.body.error # None
    /\ last.calls = <<>> => last.status = 400
    /\ TransportFailure => last.status = 500

\* The remote call of the latest message request failed.
RemoteCallFailed ==
  /\ MessageOp
  /\ last.calls # <<>>
  /\ last.remote.kind = "throw"

\* The generic operation-failed message of each operation.
GenericMsg(op) ==
  CASE op = "postMessage" -> "Slack API error"
    [] op = "getMessages" -> "Failed to retrieve messages"
    [] op = "putMessage" -> "Failed to edit message"
    [] op = "deleteMessage" -> "Failed to delete message"

\* C19, as stated: a failed remote call of send, list, edit or delete is
\* reported by the remote's declared error string when the failure carries one
\* and by the operation's generic message otherwise.
C19_DeclaredErrorElseGeneric ==
  RemoteCallFailed =>
    last.body.error =
      IF ~Falsy(last.remote.error) THEN last.remote.error ELSE GenericMsg(last.op)

\* C19, amended: as stated for list, edit and delete; a failed send without a
\* declared error string is reported by the failure's own message, and by the
\* generic message only when the failure has no message.
C19_DeclaredErrorElseOwnMessage ==
  RemoteCallFailed =>
    last.body.error =
      IF ~Falsy(last.remote.error) THEN last.remote.error
      ELSE IF last.op = "postMessage" /\ ~Falsy(last.remote.message)
        THEN last.remote.message
      ELSE GenericMsg(last.op)

\* C19 witness: a send failed in transport and was reported by the failure's
\* own message.
C19_Witness ==
  /\ last.op = "postMessage"
  /\ last.calls # <<>>
  /\ last.remote.kind = "throw"
  /\ Falsy(last.remote.error)
  /\ last.body.error = "A request error occurred"

\* The latest request made no kind of remote call twice.
EachCallOnce ==
  \A i \in 1..Len(last.calls), j \in 1..Len(last.calls) :
    last.calls[i].api = last.calls[j].api => i = j

\* C20: every handled request has made each kind of remote call at most once
\* and has been answered by one response, a JSON body or a redirect, on success
\* and on failure.
C20_OneCallOneResponse ==
  last.op # "none" =>
    /\ EachCallOnce
    /\ last.kind \in {"json", "redirect"}

\* The latest request was a token lookup, a session check or a logout that
\* asked the store.
StoreAsked ==
  /\ revision = "R1"
  /\ last.op \in {"tokenLookup", "logoutUser", "authStatus"}
  /\ last.seen.db # "unused"

\* What the latest response reported: its status and its error or message.
Outcome(l) ==
  << l.status,
     IF l.op = "logoutUser" /\ l.body.error = None THEN l.body.message ELSE l.body.error >>

\* The outcomes by which the three routes report that the user has no record.
NoRecordOutcomes ==
  { <<404, "Token not found">>, <<404, "No session found for user">>,
    <<200, "No token found">> }

\* C21: a token lookup, session check or logout that found the store
\* unavailable answers with status 500 and an error, never with the outcome
\* that reports a missing record; and a missing record is never answered 500.
C21_StoreDownIsDistinct ==
  StoreAsked =>
    /\ last.seen.db = "down" =>
         /\ last.status = 500
         /\ ~Falsy(last.body.error)
         /\ Outcome(last) \notin NoRecordOutcomes
    /\ (last.seen.db = "ok" /\ ~last.seen.found) =>
         /\ last.status # 500
         /\ Outcome(last) \in NoRecordOutcomes

\* C21 witness: a session check found the store unavailable.
C21_Witness ==
  /\ last.op = "authStatus"
  /\ revision = "R1"
  /\ last.seen.db = "down"
  /\ last.status = 500

\* The latest request was a callback that completed a successful authorization
\* flow: a complete exchange response and the success redirect.
FlowSucceeded ==
  /\ ExchangeMade
  /\ CompleteResponse(last.remote)
  /\ last.kind = "redirect"
  /\ last.body.auth_success = "1"

\* C22: after a successful authorization flow the client's message requests
\* resolve to the token obtained in that flow, not to the fallback token; and
\* a message request that carries a session token is performed with it.
C22_UserTokenAfterLogin ==
  /\ FlowSucceeded =>
       \A cookie \in ReqCookie(jar, "slack_access_token", "/api/messages") :
         ResolveToken(cookie) = last.remote.access_token
  /\ (MessageOp /\ ~Falsy(last.seen.cookie)) => last.seen.token = last.seen.cookie

\* The records of the users other than userId are the same in s and t.
SameOthers(s, t, userId) ==
  {r \in s : r.userId # userId} = {r \in t : r.userId # userId}

\* C23: the store changes only in a callback with a successful exchange, which
\* writes the token of the exchanged userId, and in a successful logout, which
\* only removes records of the named userId; neither changes a record of
\* another user, and every other request leaves the store as it was.
C23_StoreChangesOnlyByExchangeAndLogout ==
  [][ store' # store =>
        \/ /\ last'.op = "callback"
           /\ FlowSucceeded'
           /\ SameOthers(store, store', last'.remote.authed_user)
           /\ \E r \in store' :
                /\ r.userId = last'.remote.authed_user
                /\ r.accessToken = last'.remote.access_token
        \/ /\ last'.op = "logoutUser"
           /\ last'.status = 200
           /\ store' \subseteq store
           /\ SameOthers(store, store', last'.req.userId) ]_vars

\* C23 witness: an exchange for one user has been stored while the store holds
\* a record of another user.
C23_Witness ==
  /\ FlowSucceeded
  /\ revision = "R1"
  /\ \E r \in store : r.userId = last.remote.authed_user
  /\ \E r \in store : r.userId # last.remote.authed_user

\* The latest send supplied a schedule time.
ScheduleTimeSupplied == last.req.postAt # JsUndefined

\* C24: a valid send that reaches the remote makes exactly one call: the
\* schedule call if and only if the request supplied a schedule time, the
\* immediate post if and only if it supplied none; and no send that supplied a
\* schedule time makes an immediate post.
C24_OneCapabilityPerSend ==
  ValidSend =>
    /\ last.calls # <<>> =>
         /\ Len(last.calls) = 1
         /\ last.calls[1].api =
              IF ScheduleTimeSupplied THEN "chat.scheduleMessage" ELSE "chat.postMessage"
    /\ ScheduleTimeSupplied =>
         \A i \in 1..Len(last.calls) : last.calls[i].api # "chat.postMessage"

\* C25: every history query of a list request carries an oldest or a latest
\* bound, whatever ts, oldest and latest the request carries.
C25_HistoryQueryIsBounded ==
  (last.op = "getMessages" /\ last.calls # <<>>) =>
    \/ last.calls[1].arg.oldest # JsUndefined
    \/ last.calls[1].arg.latest # JsUndefined

\* Every access token of the model: the user tokens and the fallback token.
AccessTokens == Tokens \cup {BotToken}

\* The texts that the body or the redirect URL of a response carries where a
\* token could stand.
ResponseTexts(l) ==
  CASE l.op = "tokenLookup" -> {l.body.accessToken, l.body.error}
    [] l.kind = "redirect" /\ l.op # "authSlack" ->
         {l.body.auth_success, l.body.auth_error, l.body.reason, l.body.user_id,
          l.body.logout_success}
    [] l.kind = "redirect" /\ l.op = "authSlack" -> {l.body.state}
    [] l.op \in {"postMessage", "getMessages", "putMessage", "deleteMessage", "health"} ->
         {l.body.error}
    [] l.op = "logoutUser" -> {l.body.error, l.body.message}
    [] l.op = "authStatus" ->
         {l.body.error} \cup
         (IF l.body.authenticated THEN {l.body.user.id, l.body.user.team} ELSE {})
    [] l.kind = "text" -> {l.body}
    [] OTHER -> {}

\* C26: no response body and no redirect URL of any endpoint carries an access
\* token, whoever the caller is.
C26_NoTokenInBodyOrRedirect == ResponseTexts(last) \cap AccessTokens = {}


====
